---- MODULE Spec2Model ----
(***************************************************************************)
(* Model of the starboard bot in src/src/main.rs.                          *)
(*                                                                         *)
(* The Handler owns two RwLock-protected collections, watched_messages     *)
(* (HashMap<MessageId, WatchedMessage>) and starred_message_ids            *)
(* (Vec<MessageId>).  The gateway delivers reaction_add, reaction_remove   *)
(* and ready to a thread pool, so any number of invocations interleave;    *)
(* every lock-protected section that contains a platform call is split     *)
(* into an acquisition step and a body step, every section without one is  *)
(* a single step.                                                          *)
(*                                                                         *)
(* star_count is a usize.  A value v is kept as the integer s congruent    *)
(* to v modulo 2^64 that lies nearest to zero: s >= 0 stands for v = s     *)
(* and s < 0 stands for v = 2^64 + s.  Addition and subtraction of the     *)
(* small weights are exact in this representation; the wrap of a release   *)
(* build is the sign change of s, and a build with overflow checks panics  *)
(* where the sign would change.                                            *)
(***************************************************************************)
EXTENDS Integers, Sequences, FiniteSets, TLC

\* ---------------------------------------------------------------- bounds
NumHandlers == 2
NumMsgs == 1
MaxEvents == 2
MaxSeqEvents == 5
MaxStarEvents == 12
MaxPosts == 2
MaxRestarts == 1

\* ------------------------------------------------------ program constants
PinThreshold == 10
HistoryLimit == 100

H == 1..NumHandlers
Msgs == 1..NumMsgs
Kinds == {"AdminStar", "UserStar"}
Emojis == Kinds \cup {"Other"}
Bot == "bot"
Someone == "someone"

VARIABLES
  watched_messages,     \* MessageId -> WatchedMessage, for the tracked ids
  starred_message_ids,  \* Vec<MessageId>
  poisoned,             \* the watched_messages lock was poisoned by a panic
  overflow_checks,      \* the build panics on usize overflow (debug profile)
  handler,              \* the thread-pool invocations of reaction_add/remove
  ready_pc,             \* position of the ready handler
  starboard,            \* the starboard channel, oldest message first
  events,               \* reaction events delivered so far
  restarts,             \* process restarts so far
  notified              \* ids whose latest promotion attempt ended in the error notice

vars == <<watched_messages, starred_message_ids, poisoned, overflow_checks,
          handler, ready_pc, starboard, events, restarts, notified>>

shared == <<watched_messages, starred_message_ids, starboard>>

\* ---------------------------------------------------------------- helpers
Range(s) == {s[i] : i \in 1..Len(s)}

\* variant: only the most recently pushed id is compared
ContainsLast(vec, id) == vec # << >> /\ vec[Len(vec)] = id

\* Vec::contains
Contains(vec, id) == id \in Range(vec)

\* ReactionKind::power
power(kind) == IF kind = "AdminStar" THEN 10 ELSE 1

\* variant: every kind seeds the entry like UserStar
new_star_count_flat(kind) == 0

\* star_count of WatchedMessage::new
new_star_count(kind) == IF kind = "AdminStar" THEN 10 ELSE 0

\* WatchedMessage::new, once reaction.message() has returned the message
WatchedMessage_new(id, kind) == [star_count |-> new_star_count(kind), message |-> id]

\* WatchedMessage::on_star_added / on_star_removed: the new star_count
on_star_added(w, kind) == [w EXCEPT !.star_count = @ + power(kind)]

on_star_removed(w, kind) == [w EXCEPT !.star_count = @ - power(kind)]

\* the usize addition / subtraction leaves [0, 2^64)
add_overflows(w, kind) == w.star_count < 0 /\ w.star_count + power(kind) >= 0

sub_overflows(w, kind) == w.star_count >= 0 /\ w.star_count - power(kind) < 0

\* WatchedMessage::is_ready_for_pinning (a wrapped count is close to 2^64)
is_ready_for_pinning(w) == w.star_count >= PinThreshold \/ w.star_count < 0

\* id of the i-th message of the starboard channel (ids are never reused)
PostId(i) == NumMsgs + i

\* ChannelId::messages(limit 100): the most recent messages, newest first
messages(chan) ==
  LET n == IF Len(chan) < HistoryLimit THEN Len(chan) ELSE HistoryLimit
  IN [i \in 1..n |-> [id |-> PostId(Len(chan) + 1 - i),
                      author |-> chan[Len(chan) + 1 - i].author]]

\* variant: the loop pushes every message of the history
RECURSIVE gather_all(_, _, _)
gather_all(vec, msgs, bot_id) ==
  IF msgs = <<>> THEN vec
  ELSE gather_all(Append(vec, Head(msgs).id), Tail(msgs), bot_id)

\* the loop of ready: push the id of every message the bot wrote
RECURSIVE gather(_, _, _)
gather(vec, msgs, bot_id) ==
  IF msgs = <<>> THEN vec
  ELSE gather(IF Head(msgs).author = bot_id THEN Append(vec, Head(msgs).id) ELSE vec,
              Tail(msgs), bot_id)

\* HashMap::remove
map_remove(map, id) == [k \in DOMAIN map \ {id} |-> map[k]]

\* HashMap::insert
map_insert(map, id, w) == [k \in DOMAIN map \cup {id} |-> IF k = id THEN w ELSE map[k]]

\* number of starboard posts the bot sent for message id
Posts(id) == Cardinality({i \in 1..Len(starboard) :
                            starboard[i].author = Bot /\ starboard[i].orig = id})

Idle == [pc |-> "idle", msg |-> 0, emoji |-> "Other", created |-> FALSE,
         to_delete |-> FALSE, start_posted |-> FALSE]

Return(h) == handler' = [handler EXCEPT ![h] = Idle]

Goto(h, pc) == handler' = [handler EXCEPT ![h].pc = pc]

\* ------------------------------------------------------------------ locks
\* holders of the watched_messages lock, by position
WatchedWriters == {h \in H : handler[h].pc \in {"add_update", "add_mark"}}

\* variant: the read guard of the post is still held when the write lock is
\* requested
WatchedReadersKeepGuard ==
  {h \in H : handler[h].pc \in {"add_post", "add_acq_w2"}}

WatchedReaders == {h \in H : handler[h].pc = "add_post"}

CanWriteWatched == WatchedWriters = {} /\ WatchedReaders = {}

CanReadWatched == WatchedWriters = {}

\* starred_message_ids is held across steps by ready only
StarredFree == ready_pc # "locked"

AddsInFlight == Cardinality({h \in H : handler[h].pc \in
   {"add_gate", "add_check", "add_acq_w", "add_update", "add_acq_r", "add_post"}})

InFlight == (\E h \in H : handler[h].pc # "idle") \/ ready_pc = "locked"

\* ------------------------------------------------------------------- Init
\* Handler::new: both collections empty, the lock sound, ready not yet run;
\* the starboard channel is new
Init ==
  /\ watched_messages = << >>
  /\ starred_message_ids = << >>
  /\ poisoned = FALSE
  /\ overflow_checks \in BOOLEAN
  /\ handler = [h \in H |-> Idle]
  /\ ready_pc = "pending"
  /\ starboard = << >>
  /\ events = 0
  /\ restarts = 0
  /\ notified = {}

\* ------------------------------------------------------------ reaction_add
\* variant: the gate rejects on a failed lookup instead
lacks_permission_on_err(perm_ok, is_admin) == ~perm_ok

\* the administrator gate: the lookup succeeded and the permission is missing
lacks_permission(perm_ok, is_admin) == perm_ok /\ ~is_admin

\* variant: a failed lookup counts as a missing permission
short_circuits_closed(e, chan_ok, perm_ok, is_admin) ==
  \/ ~chan_ok
  \/ e = "AdminStar" /\ (~perm_ok \/ ~is_admin)

\* reaction_add returns before it touches the collections: the channel is not
\* a guild channel, or the gate rejects the reactor
short_circuits(e, chan_ok, perm_ok, is_admin) ==
  \/ ~chan_ok
  \/ e = "AdminStar" /\ lacks_permission(perm_ok, is_admin)

\* the gateway hands an event to the first free worker of the pool
FreeWorker(h) ==
  /\ handler[h].pc = "idle"
  /\ \A g \in H : g < h => handler[g].pc # "idle"

\* a ReactionAdd event reaches a worker: is_valid_reaction
StartAdd(h, m, e, limit) ==
  /\ FreeWorker(h)
  /\ events < limit
  /\ Len(starboard) + AddsInFlight < MaxPosts
  /\ IF e \notin Kinds
     THEN UNCHANGED handler
     ELSE handler' = [handler EXCEPT ![h] =
             [Idle EXCEPT !.pc = "add_gate", !.msg = m, !.emoji = e,
                          !.start_posted = m \in Range(starred_message_ids)]]
  /\ events' = events + 1
  /\ UNCHANGED <<watched_messages, starred_message_ids, poisoned, overflow_checks,
                 ready_pc, starboard, restarts, notified>>

\* the channel lookup and, for AdminStar, the member and permission lookups
AddGate(h, chan_ok, perm_ok, is_admin) ==
  /\ handler[h].pc = "add_gate"
  /\ IF short_circuits(handler[h].emoji, chan_ok, perm_ok, is_admin)
     THEN Return(h)
     ELSE Goto(h, "add_check")
  /\ UNCHANGED <<watched_messages, starred_message_ids, poisoned, overflow_checks,
                 ready_pc, starboard, events, restarts, notified>>

\* starred_message_ids.read(): return if the id is already posted
AddCheck(h) ==
  /\ handler[h].pc = "add_check"
  /\ StarredFree
  /\ IF Contains(starred_message_ids, handler[h].msg)
     THEN Return(h)
     ELSE Goto(h, "add_acq_w")
  /\ UNCHANGED <<watched_messages, starred_message_ids, poisoned, overflow_checks,
                 ready_pc, starboard, events, restarts, notified>>

\* watched_messages.write(): Err on a poisoned lock skips the block
AddAcquireWrite(h) ==
  /\ handler[h].pc = "add_acq_w"
  /\ CanWriteWatched
  /\ IF poisoned THEN Goto(h, "add_acq_r") ELSE Goto(h, "add_update")
  /\ UNCHANGED <<watched_messages, starred_message_ids, poisoned, overflow_checks,
                 ready_pc, starboard, events, restarts, notified>>

\* variant: a failed fetch still inserts an entry, without the message
AddUpdateInsertsPartial(h, fetch_ok) ==
  LET m == handler[h].msg
      k == handler[h].emoji
  IN
  /\ handler[h].pc = "add_update"
  /\ IF m \in DOMAIN watched_messages
     THEN IF add_overflows(watched_messages[m], k) /\ overflow_checks
          THEN /\ poisoned' = TRUE
               /\ Return(h)
               /\ UNCHANGED watched_messages
          ELSE /\ watched_messages' = [watched_messages EXCEPT
                                         ![m] = on_star_added(@, k)]
               /\ Goto(h, "add_acq_r")
               /\ UNCHANGED poisoned
     ELSE /\ watched_messages' =
               map_insert(watched_messages, m, WatchedMessage_new(m, k))
          /\ handler' = [handler EXCEPT ![h].pc = "add_acq_r",
                                        ![h].created = fetch_ok]
          /\ UNCHANGED poisoned
  /\ UNCHANGED <<starred_message_ids, overflow_checks, ready_pc, starboard,
                 events, restarts, notified>>

\* get_mut: add the weight, or create the entry from the fetched message
AddUpdate(h, fetch_ok) ==
  LET m == handler[h].msg
      k == handler[h].emoji
  IN
  /\ handler[h].pc = "add_update"
  /\ IF m \in DOMAIN watched_messages
     THEN IF add_overflows(watched_messages[m], k) /\ overflow_checks
          THEN /\ poisoned' = TRUE
               /\ Return(h)
               /\ UNCHANGED watched_messages
          ELSE /\ watched_messages' = [watched_messages EXCEPT
                                         ![m] = on_star_added(@, k)]
               /\ Goto(h, "add_acq_r")
               /\ UNCHANGED poisoned
     ELSE IF fetch_ok
          THEN /\ watched_messages' =
                    map_insert(watched_messages, m, WatchedMessage_new(m, k))
               /\ handler' = [handler EXCEPT ![h].pc = "add_acq_r",
                                             ![h].created = TRUE]
               /\ UNCHANGED poisoned
          ELSE /\ Goto(h, "add_acq_r")
               /\ UNCHANGED <<watched_messages, poisoned>>
  /\ UNCHANGED <<starred_message_ids, overflow_checks, ready_pc, starboard,
                 events, restarts, notified>>

\* watched_messages.read(): Err on a poisoned lock leaves to_delete None
AddAcquireRead(h) ==
  /\ handler[h].pc = "add_acq_r"
  /\ CanReadWatched
  /\ IF poisoned THEN Return(h) ELSE Goto(h, "add_post")
  /\ UNCHANGED <<watched_messages, starred_message_ids, poisoned, overflow_checks,
                 ready_pc, starboard, events, restarts, notified>>

\* variant: to_delete is set whatever the send returned
AddPostMarksAlways(h, send_ok) ==
  LET m == handler[h].msg IN
  /\ handler[h].pc = "add_post"
  /\ IF m \in DOMAIN watched_messages /\ is_ready_for_pinning(watched_messages[m])
     THEN /\ handler' = [handler EXCEPT ![h].pc = "add_acq_w2",
                                        ![h].to_delete = TRUE]
          /\ IF send_ok
             THEN /\ starboard' = Append(starboard,
                        [author |-> Bot, orig |-> watched_messages[m].message,
                         run |-> restarts])
                  /\ notified' = notified \ {m}
             ELSE /\ UNCHANGED starboard
                  /\ notified' = notified \cup {m}
     ELSE /\ Return(h)
          /\ UNCHANGED <<starboard, notified>>
  /\ UNCHANGED <<watched_messages, starred_message_ids, poisoned, overflow_checks,
                 ready_pc, events, restarts>>

\* is_ready_for_pinning, add_message_to_starboard, and the error notice
AddPost(h, send_ok) ==
  LET m == handler[h].msg IN
  /\ handler[h].pc = "add_post"
  /\ IF m \in DOMAIN watched_messages /\ is_ready_for_pinning(watched_messages[m])
     THEN IF send_ok
          THEN /\ starboard' = Append(starboard,
                     [author |-> Bot, orig |-> watched_messages[m].message,
                      run |-> restarts])
               /\ handler' = [handler EXCEPT ![h].pc = "add_acq_w2",
                                             ![h].to_delete = TRUE]
               /\ notified' = notified \ {m}
          ELSE /\ Return(h)
               /\ UNCHANGED starboard
               /\ notified' = notified \cup {m}
     ELSE /\ Return(h)
          /\ UNCHANGED <<starboard, notified>>
  /\ UNCHANGED <<watched_messages, starred_message_ids, poisoned, overflow_checks,
                 ready_pc, events, restarts>>

\* to_delete is Some: watched_messages.write()
AddAcquireWrite2(h) ==
  /\ handler[h].pc = "add_acq_w2"
  /\ CanWriteWatched
  /\ IF poisoned THEN Return(h) ELSE Goto(h, "add_mark")
  /\ UNCHANGED <<watched_messages, starred_message_ids, poisoned, overflow_checks,
                 ready_pc, starboard, events, restarts, notified>>

\* remove the entry, then starred_message_ids.write() and push
AddMark(h) ==
  /\ handler[h].pc = "add_mark"
  /\ StarredFree
  /\ watched_messages' = map_remove(watched_messages, handler[h].msg)
  /\ starred_message_ids' = Append(starred_message_ids, handler[h].msg)
  /\ Return(h)
  /\ UNCHANGED <<poisoned, overflow_checks, ready_pc, starboard, events,
                 restarts, notified>>

\* --------------------------------------------------------- reaction_remove
\* a ReactionRemove event: is_valid_reaction
StartRemove(h, m, e, limit) ==
  /\ FreeWorker(h)
  /\ events < limit
  /\ IF e \notin Kinds
     THEN UNCHANGED handler
     ELSE handler' = [handler EXCEPT ![h] =
             [Idle EXCEPT !.pc = "rm_check", !.msg = m, !.emoji = e,
                          !.start_posted = m \in Range(starred_message_ids)]]
  /\ events' = events + 1
  /\ UNCHANGED <<watched_messages, starred_message_ids, poisoned, overflow_checks,
                 ready_pc, starboard, restarts, notified>>

\* starred_message_ids.read(): return if the id is already posted
RemoveCheck(h) ==
  /\ handler[h].pc = "rm_check"
  /\ StarredFree
  /\ IF Contains(starred_message_ids, handler[h].msg)
     THEN Return(h)
     ELSE Goto(h, "rm_apply")
  /\ UNCHANGED <<watched_messages, starred_message_ids, poisoned, overflow_checks,
                 ready_pc, starboard, events, restarts, notified>>

\* variant: the entry is unwrapped, so a missing entry panics under the lock
RemoveApplyUnwrap(h) ==
  LET m == handler[h].msg
      k == handler[h].emoji
  IN
  /\ handler[h].pc = "rm_apply"
  /\ CanWriteWatched
  /\ Return(h)
  /\ IF poisoned
     THEN UNCHANGED <<watched_messages, poisoned>>
     ELSE IF m \notin DOMAIN watched_messages
          THEN /\ poisoned' = TRUE
               /\ UNCHANGED watched_messages
          ELSE IF sub_overflows(watched_messages[m], k) /\ overflow_checks
               THEN /\ poisoned' = TRUE
                    /\ UNCHANGED watched_messages
               ELSE /\ watched_messages' = [watched_messages EXCEPT
                                              ![m] = on_star_removed(@, k)]
                    /\ UNCHANGED poisoned
  /\ UNCHANGED <<starred_message_ids, overflow_checks, ready_pc, starboard,
                 events, restarts, notified>>

\* watched_messages.write() and on_star_removed on the entry, if any
RemoveApply(h) ==
  LET m == handler[h].msg
      k == handler[h].emoji
  IN
  /\ handler[h].pc = "rm_apply"
  /\ CanWriteWatched
  /\ Return(h)
  /\ IF poisoned \/ m \notin DOMAIN watched_messages
     THEN UNCHANGED <<watched_messages, poisoned>>
     ELSE IF sub_overflows(watched_messages[m], k) /\ overflow_checks
          THEN /\ poisoned' = TRUE
               /\ UNCHANGED watched_messages
          ELSE /\ watched_messages' = [watched_messages EXCEPT
                                         ![m] = on_star_removed(@, k)]
               /\ UNCHANGED poisoned
  /\ UNCHANGED <<starred_message_ids, overflow_checks, ready_pc, starboard,
                 events, restarts, notified>>

\* ------------------------------------------------------------------ ready
\* starred_message_ids.write(), taken before the history is requested
ReadyAcquire ==
  /\ ready_pc = "pending"
  /\ ready_pc' = "locked"
  /\ UNCHANGED <<watched_messages, starred_message_ids, poisoned, overflow_checks,
                 handler, starboard, events, restarts, notified>>

\* messages(limit 100) and the loop over them; nothing is pushed on Err
ReadyGather(fetch_ok) ==
  /\ ready_pc = "locked"
  /\ ready_pc' = IF fetch_ok THEN "gathered" ELSE "failed"
  /\ starred_message_ids' = IF fetch_ok
                            THEN gather(starred_message_ids, messages(starboard), Bot)
                            ELSE starred_message_ids
  /\ UNCHANGED <<watched_messages, poisoned, overflow_checks, handler, starboard,
                 events, restarts, notified>>

\* ------------------------------------------------------------ environment
\* the process is restarted: Handler::new again, the channel keeps its posts
Restart ==
  /\ restarts < MaxRestarts
  /\ restarts' = restarts + 1
  /\ watched_messages' = << >>
  /\ starred_message_ids' = << >>
  /\ poisoned' = FALSE
  /\ handler' = [h \in H |-> Idle]
  /\ ready_pc' = "pending"
  /\ notified' = {}
  /\ UNCHANGED <<overflow_checks, starboard, events>>

\* another user writes into the starboard channel
OtherPost ==
  /\ Len(starboard) + AddsInFlight < MaxPosts
  /\ starboard' = Append(starboard, [author |-> Someone, orig |-> 0, run |-> restarts])
  /\ UNCHANGED <<watched_messages, starred_message_ids, poisoned, overflow_checks,
                 handler, ready_pc, events, restarts, notified>>

\* ---------------------------------------------------------- specifications
\* the outcomes of the lookups; member and permissions are asked for AdminStar
\* in a guild channel only
Lookups == {<<c, p, a>> \in BOOLEAN \X BOOLEAN \X BOOLEAN : ~p => a}

Steps ==
  \/ \E h \in H, l \in Lookups : AddGate(h, l[1], l[2], l[3])
  \/ \E h \in H : AddCheck(h)
  \/ \E h \in H : AddAcquireWrite(h)
  \/ \E h \in H, fetch_ok \in BOOLEAN : AddUpdate(h, fetch_ok)
  \/ \E h \in H : AddAcquireRead(h)
  \/ \E h \in H, send_ok \in BOOLEAN : AddPost(h, send_ok)
  \/ \E h \in H : AddAcquireWrite2(h)
  \/ \E h \in H : AddMark(h)
  \/ \E h \in H : RemoveCheck(h)
  \/ \E h \in H : RemoveApply(h)
  \/ \E fetch_ok \in BOOLEAN : ReadyGather(fetch_ok)

\* concurrent handlers within one run of the process
Next ==
  \/ \E h \in H, m \in Msgs, e \in Emojis : StartAdd(h, m, e, MaxEvents)
  \/ \E h \in H, m \in Msgs, e \in Emojis : StartRemove(h, m, e, MaxEvents)
  \/ ReadyAcquire
  \/ Steps

Spec == Init /\ [][Next]_vars

\* the steps of one invocation, run by its worker thread
HandlerStep(h) ==
  \/ \E l \in Lookups : AddGate(h, l[1], l[2], l[3])
  \/ AddCheck(h)
  \/ AddAcquireWrite(h)
  \/ \E fetch_ok \in BOOLEAN : AddUpdate(h, fetch_ok)
  \/ AddAcquireRead(h)
  \/ \E send_ok \in BOOLEAN : AddPost(h, send_ok)
  \/ AddAcquireWrite2(h)
  \/ AddMark(h)
  \/ RemoveCheck(h)
  \/ RemoveApply(h)

\* every worker thread is scheduled and every platform call returns
Fairness ==
  /\ \A h \in H : WF_vars(HandlerStep(h))
  /\ WF_vars(\E fetch_ok \in BOOLEAN : ReadyGather(fetch_ok))

\* concurrent handlers on message 1: both locks guard a whole collection, so
\* the contention does not depend on the ids
NextFair ==
  \/ \E h \in H, e \in Emojis : StartAdd(h, 1, e, MaxEvents)
  \/ \E h \in H, e \in Emojis : StartRemove(h, 1, e, MaxEvents)
  \/ ReadyAcquire
  \/ Steps

SpecFair == Init /\ [][NextFair]_vars /\ Fairness

\* one handler at a time, across restarts of the process
NextSeq ==
  \/ /\ ~InFlight
     /\ \E m \in Msgs, e \in Emojis : StartAdd(1, m, e, MaxSeqEvents)
  \/ /\ ~InFlight
     /\ \E m \in Msgs, e \in Emojis : StartRemove(1, m, e, MaxSeqEvents)
  \/ /\ ~InFlight
     /\ ReadyAcquire
  \/ /\ ~InFlight
     /\ Restart
  \/ /\ ~InFlight
     /\ OtherPost
  \/ Steps

SpecSeq == Init /\ [][NextSeq]_vars

\* UserStar reactions on message 1 only, one at a time, every platform call
\* succeeding
NextStars ==
  \/ /\ ~InFlight
     /\ StartAdd(1, 1, "UserStar", MaxStarEvents)
  \/ /\ ~InFlight
     /\ ReadyAcquire
  \/ ReadyGather(TRUE)
  \/ AddGate(1, TRUE, TRUE, TRUE)
  \/ AddCheck(1)
  \/ AddAcquireWrite(1)
  \/ AddUpdate(1, TRUE)
  \/ AddAcquireRead(1)
  \/ AddPost(1, TRUE)
  \/ AddAcquireWrite2(1)
  \/ AddMark(1)

SpecStars == Init /\ [][NextStars]_vars

\* ------------------------------------------------------------- properties
Posted(id) == Contains(starred_message_ids, id)

Watched(id) == id \in DOMAIN watched_messages

\* ids of the starboard messages the bot wrote
BotPostIds == {PostId(i) : i \in {j \in 1..Len(starboard) : starboard[j].author = Bot}}

\* handler h takes a step
Moves(h) == handler'[h] # handler[h]

\* C1: under every interleaving of the handlers of one run, the starboard
\* post for a message is sent successfully at most once.
C1_PostedAtMostOnce == \A m \in Msgs : Posts(m) <= 1

\* C2: in a sequential run of N >= 1 UserStar adds on the unseen message 1,
\* star_count is N while N < 10, and with the N = 10th add the message is
\* posted once and removed from the store.
C2_CountEqualsAdds ==
  (~InFlight /\ events >= 1) =>
     IF events < PinThreshold
     THEN Watched(1) /\ watched_messages[1].star_count = events /\ Posts(1) = 0
     ELSE ~Watched(1) /\ Posted(1) /\ Posts(1) = 1

\* C3: no id of the posted set is present in the watched-message store.
C3_PostedNotWatched == \A m \in Msgs : Posted(m) => ~Watched(m)

\* C4: a reaction_add or reaction_remove handler whose message id was in the
\* posted set when it started changes neither collection, sends no post, and
\* returns from its posted check.
C4_PostedIsFrozen ==
  [][\A h \in H : (handler[h].start_posted /\ Moves(h)) =>
        /\ UNCHANGED shared
        /\ handler[h].pc \in {"add_gate", "add_check", "rm_check"}
        /\ handler[h].pc # "add_gate" => handler'[h] = Idle]_vars

C4_Witness ==
  \E h \in H : /\ handler[h].start_posted
               /\ handler[h].pc = "add_check"
               /\ Posts(handler[h].msg) = 1
               /\ StarredFree

\* C5: once ready has gathered the history of a starboard channel of fewer
\* than 100 messages, no message that an earlier run of the process promoted
\* is posted again.
C5_NoRepostAfterRestart ==
  [][~ /\ ready_pc = "gathered"
       /\ Len(starboard) < HistoryLimit
       /\ Len(starboard') = Len(starboard) + 1
       /\ starboard'[Len(starboard')].author = Bot
       /\ \E i \in 1..Len(starboard) :
             /\ starboard[i].author = Bot
             /\ starboard[i].orig = starboard'[Len(starboard')].orig
             /\ starboard[i].run < restarts]_vars

\* C6: in a sequential run, the invocation whose AdminStar add created the
\* entry finds it with star_count 10, eligible, sends the post, and unless
\* the send fails removes the entry and adds the id to the posted set before
\* it returns.
C6_AdminStarPromotes ==
  [][\A h \in H, m \in Msgs :
       (handler[h].msg = m /\ handler[h].emoji = "AdminStar"
          /\ handler[h].created /\ Moves(h)) =>
          /\ handler[h].pc = "add_acq_r" => handler'[h].pc = "add_post"
          /\ handler[h].pc = "add_post" =>
                /\ Watched(m)
                /\ watched_messages[m].star_count = 10
                /\ is_ready_for_pinning(watched_messages[m])
                /\ \/ /\ handler'[h].pc = "add_acq_w2"
                      /\ Posts(m)' = Posts(m) + 1
                   \/ /\ handler'[h] = Idle
                      /\ starboard' = starboard
          /\ handler[h].pc = "add_acq_w2" => handler'[h].pc = "add_mark"
          /\ handler[h].pc = "add_mark" =>
                /\ handler'[h] = Idle
                /\ ~Watched(m)'
                /\ Posted(m)']_vars

C6_Witness ==
  \E h \in H : /\ handler[h].emoji = "AdminStar"
               /\ handler[h].created
               /\ handler[h].pc = "add_mark"
               /\ Posts(handler[h].msg) = 1

\* C7: when the permission lookup succeeds and the reactor is no
\* administrator, an AdminStar add returns at the gate: no entry is created
\* or changed, the posted set is unchanged and no post is sent.
C7_NonAdminNoEffect ==
  [][\A h \in H :
       (handler[h].emoji = "AdminStar" /\ AddGate(h, TRUE, TRUE, FALSE)) =>
          /\ handler'[h] = Idle
          /\ UNCHANGED <<shared, poisoned>>]_vars

C7_Witness ==
  /\ \E h \in H : /\ handler[h].pc = "add_gate"
                  /\ handler[h].emoji = "AdminStar"
                  /\ Watched(handler[h].msg)
  /\ ENABLED (\E h \in H : handler[h].emoji = "AdminStar" /\ AddGate(h, TRUE, TRUE, FALSE))

\* C8: a reaction_remove for an id with no entry in the store creates no
\* entry, changes neither collection and does not panic.
C8_RemoveAbsentNoOp ==
  [][\A h \in H :
       (handler[h].pc \in {"rm_check", "rm_apply"} /\ ~Watched(handler[h].msg)
          /\ Moves(h)) =>
          /\ UNCHANGED <<shared, poisoned>>
          /\ handler[h].pc = "rm_apply" => handler'[h] = Idle]_vars

C8_Witness ==
  \E h \in H : /\ handler[h].pc = "rm_apply"
               /\ ~Watched(handler[h].msg)
               /\ ~poisoned
               /\ CanWriteWatched

\* C9: ready, run on an empty posted set and a history of at most 100
\* messages, leaves exactly the ids of the messages the bot wrote in the set.
C9_ReadyGathersOwnPosts ==
  [][(ReadyGather(TRUE) /\ starred_message_ids = << >>
        /\ Len(starboard) <= HistoryLimit) =>
        Range(starred_message_ids') = BotPostIds]_vars

C9_Witness ==
  /\ ready_pc = "gathered"
  /\ starred_message_ids # << >>
  /\ Range(starred_message_ids) = BotPostIds
  /\ \E i, j \in 1..Len(starboard) :
        /\ i < j
        /\ starboard[i].author = Someone
        /\ starboard[j].author = Bot
        /\ PostId(j) \in Range(starred_message_ids)

\* C10: the same UserStar add delivered twice to a fresh store leaves
\* star_count at twice the weight.
C10_ReplayAddsTwice ==
  (~InFlight /\ events = 2) =>
     /\ Watched(1)
     /\ watched_messages[1].star_count = power("UserStar") + power("UserStar")

\* C11: when the send for an eligible message fails, the entry keeps its
\* star_count and the id is not added to the posted set; the next add applied
\* to that entry finds it eligible again, so the promotion is attempted again.
C11_RetryAfterSendFailure ==
  [][\A h \in H, m \in Msgs :
       (handler[h].msg = m /\ Moves(h)) =>
          /\ (handler[h].pc = "add_post" /\ m \in notified') =>
                UNCHANGED <<watched_messages, starred_message_ids, starboard>>
          /\ (handler[h].pc = "add_update" /\ m \in notified /\ Watched(m)
                /\ is_ready_for_pinning(watched_messages[m])) =>
                /\ handler'[h].pc = "add_acq_r"
                /\ Watched(m)'
                /\ is_ready_for_pinning(watched_messages'[m])]_vars

\* C12: when the fetch fails while the entry of an unseen message is created,
\* nothing is inserted: the invocation leaves both collections as they were
\* and sends no post.
C12_FetchFailureInsertsNothing ==
  [][\A h \in H :
       /\ (handler[h].pc = "add_update" /\ ~Watched(handler[h].msg)
             /\ AddUpdate(h, FALSE)) =>
             /\ UNCHANGED <<shared, poisoned>>
             /\ handler'[h] = [handler[h] EXCEPT !.pc = "add_acq_r"]
       /\ (handler[h].pc \in {"add_acq_r", "add_post"} /\ ~handler[h].created
             /\ ~Watched(handler[h].msg) /\ Moves(h)) =>
             /\ UNCHANGED <<shared, poisoned>>
             /\ handler[h].pc = "add_post" => handler'[h] = Idle]_vars

C12_Witness ==
  \E h \in H : /\ handler[h].pc = "add_post"
               /\ ~handler[h].created
               /\ ~Watched(handler[h].msg)
               /\ ~poisoned

\* C13: every reaction_remove applied to a tracked message lowers star_count
\* by the weight of its kind without failing, and a count driven below zero
\* is not a large value: the entry is not eligible.
C13_RemovalHasNoFloor ==
  [][\A h \in H, m \in Msgs :
       (handler[h].msg = m /\ handler[h].pc = "rm_apply" /\ Watched(m)
          /\ ~poisoned /\ Moves(h)) =>
          /\ ~poisoned'
          /\ Watched(m)'
          /\ watched_messages'[m].star_count =
                watched_messages[m].star_count - power(handler[h].emoji)
          /\ watched_messages'[m].star_count < PinThreshold =>
                ~is_ready_for_pinning(watched_messages'[m])]_vars

\* C14: within the event handlers an id is pushed to the posted set, and an
\* entry is removed from the store, only by an invocation whose own send for
\* that message returned success; no other step of reaction_add or
\* reaction_remove removes an entry or grows the posted set.
C14_MarkOnlyAfterSend ==
  [][/\ \A h \in H :
          /\ (~handler[h].to_delete /\ handler'[h].to_delete) =>
                /\ handler[h].pc = "add_post"
                /\ handler'[h].msg = handler[h].msg
                /\ Posts(handler[h].msg)' = Posts(handler[h].msg) + 1
          /\ handler'[h].pc \in {"add_acq_w2", "add_mark"} =>
                handler'[h].to_delete
     /\ (starred_message_ids' # starred_message_ids /\ ready_pc' = ready_pc) =>
          \E h \in H : /\ handler[h].pc = "add_mark"
                       /\ handler[h].to_delete
                       /\ Moves(h)
                       /\ starred_message_ids' =
                             Append(starred_message_ids, handler[h].msg)
     /\ \A m \in Msgs :
          (Watched(m) /\ ~Watched(m)') =>
             \E h \in H : /\ handler[h].pc = "add_mark"
                          /\ handler[h].to_delete
                          /\ handler[h].msg = m
                          /\ Moves(h)]_vars

C14_Witness ==
  \E h \in H : /\ handler[h].pc = "idle"
               /\ \E m \in Msgs : /\ Posted(m)
                                  /\ ~Watched(m)
                                  /\ Posts(m) >= 1

\* C15: create-or-update is atomic per message: every accepted add reaches its
\* write section and either creates the entry (one creation per absent entry)
\* or adds its weight to the entry, and every remove on a tracked entry
\* subtracts its weight, each exactly once.
C15_EveryWeightApplied ==
  [][\A h \in H, m \in Msgs :
       (handler[h].msg = m /\ Moves(h)) =>
          /\ handler[h].pc = "add_acq_w" => handler'[h].pc = "add_update"
          /\ (handler[h].pc = "add_update" /\ Watched(m)) =>
                /\ ~handler'[h].created
                /\ watched_messages'[m].star_count =
                      watched_messages[m].star_count + power(handler[h].emoji)
          /\ (~handler[h].created /\ handler'[h].created) =>
                (~Watched(m) /\ Watched(m)')
          /\ (handler[h].pc = "rm_apply" /\ Watched(m)) =>
                /\ Watched(m)'
                /\ watched_messages'[m].star_count =
                      watched_messages[m].star_count - power(handler[h].emoji)]_vars

\* C16: a failed member or permission lookup lets an AdminStar add through
\* with its full weight: the invocation goes on to the posted check as an
\* AdminStar, and its write section seeds the entry at 10 or adds 10.
C16_FailedLookupLetsAdminStarThrough ==
  [][\A h \in H, m \in Msgs :
       (handler[h].msg = m /\ handler[h].emoji = "AdminStar") =>
          /\ AddGate(h, TRUE, FALSE, TRUE) =>
                handler'[h] = [handler[h] EXCEPT !.pc = "add_check"]
          /\ (handler[h].pc = "add_update" /\ Moves(h)) =>
                IF Watched(m)
                THEN watched_messages'[m].star_count =
                        watched_messages[m].star_count + PinThreshold
                ELSE handler'[h].created =>
                        watched_messages'[m].star_count = PinThreshold]_vars

C16_Witness ==
  /\ \E h \in H : /\ handler[h].pc = "add_gate"
                  /\ handler[h].emoji = "AdminStar"
                  /\ ~Posted(handler[h].msg)
  /\ ENABLED (\E h \in H : handler[h].emoji = "AdminStar" /\ AddGate(h, TRUE, FALSE, TRUE))

\* C17: failures are isolated per event: whatever failed before (a fetch, a
\* send, a lock, a removal below zero), a later accepted add that passes the
\* posted check enters its write section, and a later remove finds the lock
\* of the store sound.
C17_FailuresIsolated ==
  [][\A h \in H :
       Moves(h) =>
          /\ handler[h].pc = "add_acq_w" => handler'[h].pc = "add_update"
          /\ handler[h].pc = "rm_apply" => ~poisoned]_vars

\* C18: removals never help a promotion: a send succeeds for a message only
\* when the weighted total applied to its entry (seed plus adds minus
\* removals, over the integers) is at least 10.
C18_PostedOnlyAtThreshold ==
  [][\A h \in H, m \in Msgs :
       (handler[h].msg = m /\ Posts(m)' > Posts(m) /\ Moves(h)) =>
          /\ Watched(m)
          /\ watched_messages[m].star_count >= PinThreshold]_vars

\* C20: in a sequential run, whenever no handler is in flight, every entry
\* of the store with star_count >= 10 is one whose most recent promotion
\* attempt failed to send.
C20_EligibleAtRestWasAttempted ==
  ~InFlight =>
     \A m \in DOMAIN watched_messages :
        is_ready_for_pinning(watched_messages[m]) => m \in notified

\* C19: the lock protocol is deadlock-free: in no reachable state is every
\* unfinished handler blocked on a lock, and under fair scheduling with
\* terminating platform calls every handler invocation finishes: again and
\* again no invocation of reaction_add, reaction_remove or ready is in flight.
C19_EveryHandlerFinishes ==
  /\ [](InFlight => ENABLED Steps)
  /\ []<>(~InFlight)

C19_Witness ==
  \E h, g \in H : /\ handler[h].pc = "add_mark"
                  /\ ready_pc = "locked"
                  /\ handler[g].pc \in {"add_acq_w", "add_acq_r", "add_acq_w2", "rm_apply"}
                  /\ ~ENABLED HandlerStep(h)
                  /\ ~ENABLED HandlerStep(g)

====
